---------------------------- MODULE Spec2Model ----------------------------
(***************************************************************************)
(* A model of generate_today.py: the solar times of a day at the fixed     *)
(* location, the list of day windows built from them, and the payload      *)
(* (current window, eat state, progress, Hijri label) derived for "now".   *)
(*                                                                         *)
(* Representation.                                                         *)
(*   - A datetime is a whole number of minutes of local wall-clock time    *)
(*     counted from midnight of RAMADAN_1_GREGORIAN (2026-02-17); a date   *)
(*     is a whole number of days counted from that date.  All datetimes    *)
(*     of the program carry the same tzinfo, so Python compares and        *)
(*     subtracts them as wall-clock values; the model does the same.       *)
(*   - The program's floats are fixed-point integers: an angle in radians  *)
(*     is in units of 1e-5 rad, an angle in degrees in units of 1e-3       *)
(*     degree, a sine or cosine in units of 1e-4, a minute offset in       *)
(*     units of 1e-3 minute.  Products are split so that every             *)
(*     intermediate value fits 32 bits.                                    *)
(*   - timedelta(minutes=x) and timedelta / 2 round to the resolution of   *)
(*     a datetime, half to even; the resolution is one minute here.        *)
(***************************************************************************)
EXTENDS Integers, Sequences, FiniteSets, TLC

VARIABLES
    now,       \* the wall clock: dt.datetime.now(TZ)
    pending,   \* TRUE when the scheduler has triggered a run that has not run yet
    ran_at,    \* the "now" of the latest run
    events,    \* the event times computed by the latest run (its locals)
    blocks,    \* the window list built by the latest run
    payload,   \* the payload pushed by the latest run
    ha_in,     \* hour_angle alone: its arguments
    ha_out,    \* hour_angle alone: its outcome
    sel_in,    \* the window scan alone: a window list and a "now"
    sel_out    \* the window scan alone: the fields taken from the current window

vars == <<now, pending, ran_at, events, blocks, payload, ha_in, ha_out, sel_in, sel_out>>

-----------------------------------------------------------------------------
(* Module constants of generate_today.py *)

\* LAT = 50.1109, in 1e-3 degree
LAT == 50111
\* LON = 8.6821, in 1e-4 degree
LON == 86821
SIHORI_BEFORE_SUNRISE_MIN == 75
ASR_BEFORE_MAGHRIB_MIN == 105
MAGHRIB_WINDOW_MIN == 15
NISF_DURATION_MIN == 66
\* RAMADAN_1_GREGORIAN = dt.date(2026, 2, 17): the origin of the day count
RAMADAN_1_GREGORIAN == 0
RAMADAN_1_HIJRI_YEAR == 1447
HIJRI_MONTHS ==
    << "Muharram", "Safar", "Rabi I", "Rabi II",
       "Jumada I", "Jumada II", "Rajab", "Sha'ban",
       "Ramadan", "Shawwal", "Dhul Qa'dah", "Dhul Hijjah" >>

-----------------------------------------------------------------------------
(* Arithmetic helpers *)

Max(a, b) == IF a >= b THEN a ELSE b

Min(a, b) == IF a <= b THEN a ELSE b

\* x / d rounded to the nearest integer, ties to the even one (d > 0):
\* the rounding of timedelta(minutes=x) and of timedelta / int.
RoundHalfEven(x, d) ==
    LET q == x \div d
        r == x % d
    IN  IF 2 * r < d THEN q
        ELSE IF 2 * r > d THEN q + 1
        ELSE IF q % 2 = 0 THEN q ELSE q + 1

\* c * t / 10000 (floor), with c split so that no product exceeds 32 bits
\* (|c| < 10^6, |t| < 10^6).
SMul(c, t) == ((c \div 1000) * t + ((c % 1000) * t) \div 1000) \div 10

-----------------------------------------------------------------------------
(* math.pi, math.sin, math.cos, math.acos, math.degrees in fixed point *)

\* math.pi in 1e-5 rad
PI == 314159

HALF_PI == 157080

\* 10000 * sin(k / 100) for k = 0 .. 159 (entry k + 1)
SinTab ==
    << 0, 100, 200, 300, 400, 500, 600, 699, 799, 899, 998, 1098, 1197, 1296, 1395, 1494,
       1593, 1692, 1790, 1889, 1987, 2085, 2182, 2280, 2377, 2474, 2571, 2667, 2764, 2860, 2955, 3051,
       3146, 3240, 3335, 3429, 3523, 3616, 3709, 3802, 3894, 3986, 4078, 4169, 4259, 4350, 4439, 4529,
       4618, 4706, 4794, 4882, 4969, 5055, 5141, 5227, 5312, 5396, 5480, 5564, 5646, 5729, 5810, 5891,
       5972, 6052, 6131, 6210, 6288, 6365, 6442, 6518, 6594, 6669, 6743, 6816, 6889, 6961, 7033, 7104,
       7174, 7243, 7311, 7379, 7446, 7513, 7578, 7643, 7707, 7771, 7833, 7895, 7956, 8016, 8076, 8134,
       8192, 8249, 8305, 8360, 8415, 8468, 8521, 8573, 8624, 8674, 8724, 8772, 8820, 8866, 8912, 8957,
       9001, 9044, 9086, 9128, 9168, 9208, 9246, 9284, 9320, 9356, 9391, 9425, 9458, 9490, 9521, 9551,
       9580, 9608, 9636, 9662, 9687, 9711, 9735, 9757, 9779, 9799, 9819, 9837, 9854, 9871, 9887, 9901,
       9915, 9927, 9939, 9949, 9959, 9967, 9975, 9982, 9987, 9992, 9995, 9998, 9999, 10000, 10000, 9998 >>

\* sin on [0, pi/2], linear interpolation between table entries
SinQuarter(x) ==
    IF x >= HALF_PI THEN 10000
    ELSE LET k == x \div 1000
             f == x % 1000
         IN  SinTab[k + 1] + ((SinTab[k + 2] - SinTab[k + 1]) * f) \div 1000

\* math.sin(x), x in 1e-5 rad, result in 1e-4
math_sin(x) ==
    LET y == x % (2 * PI)
    IN  IF y <= HALF_PI THEN SinQuarter(y)
        ELSE IF y <= PI THEN SinQuarter(PI - y)
        ELSE IF y <= PI + HALF_PI THEN -SinQuarter(y - PI)
        ELSE -SinQuarter(2 * PI - y)

\* math.cos(x) = sin(x + pi/2)
math_cos(x) == math_sin(x + HALF_PI)

\* asin on [0, 10000]: inverse of SinQuarter
AsinQuarter(c) ==
    IF c >= 10000 THEN HALF_PI
    ELSE LET k == CHOOSE j \in 0..156 : SinTab[j + 1] <= c /\ c < SinTab[j + 2]
         IN  k * 1000 + ((c - SinTab[k + 1]) * 1000) \div (SinTab[k + 2] - SinTab[k + 1])

\* math.acos(c) for c in [-1, 1], c in 1e-4, result in 1e-5 rad
math_acos(c) ==
    IF c <= -10000 THEN PI
    ELSE IF c >= 0 THEN HALF_PI - AsinQuarter(c)
    ELSE HALF_PI + AsinQuarter(-c)

\* math.degrees(x): 1e-5 rad to 1e-3 degree (x * 180000 / PI, split)
math_degrees(x) ==
    LET p == x * 1800
    IN  (p \div PI) * 100 + ((p % PI) * 100) \div PI

-----------------------------------------------------------------------------
(* Solar helper math *)

\* deg2rad(x): 1e-3 degree to 1e-5 rad (x * PI / 180000, split)
deg2rad(x) ==
    LET q == x \div 180
        r == x % 180
    IN  (q * PI + (r * PI) \div 180) \div 1000

\* solar_declination(gamma), in 1e-5 rad; the coefficients are in 1e-6
solar_declination(gamma) ==
    ( 6918
      - SMul(399912, math_cos(gamma))
      + SMul(70257, math_sin(gamma))
      - SMul(6758, math_cos(2 * gamma))
      + SMul(907, math_sin(2 * gamma))
      - SMul(2697, math_cos(3 * gamma))
      + SMul(1480, math_sin(3 * gamma)) ) \div 10

\* equation_of_time(gamma), in 1e-3 minute; the coefficients are in 1e-6
equation_of_time(gamma) ==
    SMul(229180,
         75
         + SMul(1868, math_cos(gamma))
         - SMul(32077, math_sin(gamma))
         - SMul(14615, math_cos(2 * gamma))
         - SMul(40849, math_sin(2 * gamma))) \div 100

\* The outcome of a float computation: a value, or the exception raised
Ok(v) == [err |-> "none", val |-> v]

Raise(e) == [err |-> e, val |-> 0]

\* The cosine ratio of hour_angle (lines 54-57), in 1e-4; a zero denominator
\* raises ZeroDivisionError.
CosRatio(lat_rad, decl_rad, alt_deg) ==
    LET h   == deg2rad(alt_deg)
        num == math_sin(h) * 10000 - math_sin(lat_rad) * math_sin(decl_rad)
        den == (math_cos(lat_rad) * math_cos(decl_rad)) \div 10000
    IN  IF den = 0 THEN Raise("ZeroDivisionError") ELSE Ok(num \div den)

\* Line 58: cosH = max(-1.0, min(1.0, cosH))
ClampRatio(raw) ==
    IF raw.err # "none" THEN raw ELSE Ok(Max(-10000, Min(10000, raw.val)))

\* Line 59: math.degrees(math.acos(cosH)), in 1e-3 degree
AcosDegrees(cosH) ==
    IF cosH.err # "none" THEN cosH
    ELSE IF cosH.val < -10000 \/ cosH.val > 10000 THEN Raise("ValueError")
    ELSE Ok(math_degrees(math_acos(cosH.val)))

\* hour_angle without the clamp of line 58
hour_angle_unclamped(lat_rad, decl_rad, alt_deg) ==
    AcosDegrees(CosRatio(lat_rad, decl_rad, alt_deg))

\* hour_angle(lat_rad, decl_rad, alt_deg), in 1e-3 degree
hour_angle(lat_rad, decl_rad, alt_deg) ==
    AcosDegrees(ClampRatio(CosRatio(lat_rad, decl_rad, alt_deg)))

-----------------------------------------------------------------------------
(* datetime.date and zoneinfo: the calendar of the day count *)

MinutesPerDay == 1440

IsLeap(y) == (y % 4 = 0 /\ y % 100 # 0) \/ y % 400 = 0

DaysInYear(y) == IF IsLeap(y) THEN 366 ELSE 365

\* The day number of 1 January of year y (2026-01-01 is 47 days before the
\* origin 2026-02-17).
RECURSIVE YearStart(_)
YearStart(y) ==
    IF y = 2026 THEN -47
    ELSE IF y > 2026 THEN YearStart(y - 1) + DaysInYear(y - 1)
    ELSE YearStart(y + 1) - DaysInYear(y)

Years == 2024..2029

\* date.year
YearOf(d) == CHOOSE y \in Years : YearStart(y) <= d /\ d < YearStart(y + 1)

\* day_of_year(d) = int(d.strftime("%j"))
day_of_year(d) == d - YearStart(YearOf(d)) + 1

\* date.weekday(), Monday = 0; 2026-02-17 is a Tuesday
Weekday(d) == (d + 1) % 7

\* The last Sunday on or before day d
LastSundayUpTo(d) == d - ((Weekday(d) + 1) % 7)

\* noon.utcoffset() of Europe/Berlin in minutes: CEST from the last Sunday of
\* March up to the last Sunday of October, CET otherwise.
UtcOffsetMin(d) ==
    LET y      == YearOf(d)
        leap   == IF IsLeap(y) THEN 1 ELSE 0
        mar31  == YearStart(y) + 89 + leap
        oct31  == YearStart(y) + 303 + leap
    IN  IF LastSundayUpTo(mar31) <= d /\ d < LastSundayUpTo(oct31) THEN 120 ELSE 60

\* datetime(date.year, date.month, date.day, 0, 0, tzinfo=TZ)
MidnightOf(d) == d * MinutesPerDay

\* datetime.date()
DateOf(t) == t \div MinutesPerDay

\* The wall-clock (hour, minute) that "%H:%M" prints
HHMM(t) == << (t % MinutesPerDay) \div 60, t % 60 >>

-----------------------------------------------------------------------------
(* compute_solar_times *)

\* to_dt(mins) of compute_solar_times, mins in 1e-3 minute:
\* midnight + timedelta(minutes=mins % 1440.0)
to_dt(midnight, mins) ==
    midnight + RoundHalfEven(mins % (MinutesPerDay * 1000), 1000)

\* Line 83: gamma = 2 * math.pi / 365.0 * (doy - 1), in 1e-5 rad
FractionalYear(doy) == (2 * PI * (doy - 1)) \div 365

\* Line 91: solar_noon_min, in 1e-3 minute
SolarNoonMin(gamma, tz_offset_min) ==
    720000 - (4 * LON) \div 10 - equation_of_time(gamma) + tz_offset_min * 1000

\* Line 94: ALT = -0.833, in 1e-3 degree
ALT == -833

\* Lines 97-107: sunrise and sunset around solar noon, as datetimes
SunriseZawalMaghrib(midnight, solar_noon_min, H0) ==
    [ sunrise |-> to_dt(midnight, solar_noon_min - H0 * 4),
      zawal   |-> to_dt(midnight, solar_noon_min),
      maghrib |-> to_dt(midnight, solar_noon_min + H0 * 4) ]

\* Lines 84-95 for a given gamma and UTC offset
SolarTimesAt(midnight, gamma, tz_offset_min) ==
    SunriseZawalMaghrib(midnight,
                        SolarNoonMin(gamma, tz_offset_min),
                        hour_angle(deg2rad(LAT), solar_declination(gamma), ALT).val)

\* compute_solar_times(date): (sunrise, zawal, maghrib) as datetimes
compute_solar_times(date) ==
    SolarTimesAt(MidnightOf(date), FractionalYear(day_of_year(date)), UtcOffsetMin(date))

-----------------------------------------------------------------------------
(* clamp_pct and gregorian_to_hijri_ramadan_anchor *)

\* clamp_pct(x) = int(max(0, min(100, x))) for the quotient x = num / den
\* (den > 0)
clamp_pct(num, den) ==
    IF num <= 0 THEN 0
    ELSE IF num >= 100 * den THEN 100
    ELSE num \div den

\* gregorian_to_hijri_ramadan_anchor with "day < 0" for "day <= 0"
hijri_anchor_strict(date) ==
    LET delta == date - RAMADAN_1_GREGORIAN
        day   == 1 + delta
    IN  IF day < 0 THEN << 30 + day, 8, RAMADAN_1_HIJRI_YEAR >>
        ELSE << day, 9, RAMADAN_1_HIJRI_YEAR >>

\* gregorian_to_hijri_ramadan_anchor(date) = (day, month, year)
gregorian_to_hijri_ramadan_anchor(date) ==
    LET delta == date - RAMADAN_1_GREGORIAN
        day   == 1 + delta
    IN  IF day <= 0 THEN << 30 + day, 8, RAMADAN_1_HIJRI_YEAR >>
        ELSE << day, 9, RAMADAN_1_HIJRI_YEAR >>

-----------------------------------------------------------------------------
(* compute_day_schedule *)

\* timedelta.total_seconds() of a difference of datetimes
total_seconds(td) == td * 60

\* Lines 116-129: the times derived from today's solar times st and
\* tomorrow's sunrise
DerivedEvents(today, st, sunrise_next) ==
    LET sihori_end      == st.sunrise - SIHORI_BEFORE_SUNRISE_MIN
        asr_end         == st.maghrib - ASR_BEFORE_MAGHRIB_MIN
        zuhr_end        == st.zawal + RoundHalfEven(asr_end - st.zawal, 2)
        maghrib_end     == st.maghrib + MAGHRIB_WINDOW_MIN
        nisf_start      == st.maghrib + RoundHalfEven(sunrise_next - st.maghrib, 2)
        nisf_end        == nisf_start + NISF_DURATION_MIN
        sihori_end_next == sunrise_next - SIHORI_BEFORE_SUNRISE_MIN
    IN  [ today           |-> today,
          midnight        |-> MidnightOf(today),
          sunrise         |-> st.sunrise,
          zawal           |-> st.zawal,
          maghrib         |-> st.maghrib,
          sunrise_next    |-> sunrise_next,
          sihori_end      |-> sihori_end,
          asr_end         |-> asr_end,
          zuhr_end        |-> zuhr_end,
          maghrib_end     |-> maghrib_end,
          nisf_start      |-> nisf_start,
          nisf_end        |-> nisf_end,
          sihori_end_next |-> sihori_end_next ]

\* DayEvents with the next sunrise taken from today's solar times
DayEvents_same_day_sunrise(today) ==
    DerivedEvents(today, compute_solar_times(today), compute_solar_times(today).sunrise)

\* Lines 110-129: the event times of the day of "now"
DayEvents(today) ==
    DerivedEvents(today, compute_solar_times(today), compute_solar_times(today + 1).sunrise)

\* One entry of blocks: (name, start, end, line1, line2); a line is its text
\* and the "%H:%M" of the time it names.
Block(name, start, end, text1, t1, text2, t2) ==
    [ name  |-> name, start |-> start, end |-> end,
      line1 |-> << text1, HHMM(t1) >>, line2 |-> << text2, HHMM(t2) >> ]

\* Lines 131-141: the window list
BuildBlocks(e) ==
    << Block("Pre-Sehori", e.midnight, e.sihori_end,
             "Sihori ends at", e.sihori_end, "Sunrise at", e.sunrise),
       Block("Fajr", e.sihori_end, e.sunrise,
             "Sunrise at", e.sunrise, "Zawal at", e.zawal),
       Block("Midday", e.sunrise, e.zawal,
             "Zawal at", e.zawal, "Zuhr ends at", e.zuhr_end),
       Block("Zohr", e.zawal, e.zuhr_end,
             "Zuhr ends at", e.zuhr_end, "Asr ends at", e.asr_end),
       Block("Asr", e.zuhr_end, e.asr_end,
             "Asr ends at", e.asr_end, "Maghrib at", e.maghrib),
       Block("Late Asr", e.asr_end, e.maghrib,
             "Maghrib at", e.maghrib, "Nisf starts at", e.nisf_start),
       Block("Maghrib", e.maghrib, e.maghrib_end,
             "Maghrib ends at", e.maghrib_end, "Nisf starts at", e.nisf_start),
       Block("Isha", e.maghrib_end, e.nisf_start,
             "Nisf starts at", e.nisf_start, "Nisf ends at", e.nisf_end),
       Block("Late Night", e.nisf_end, e.sihori_end_next,
             "Sihori ends at", e.sihori_end_next, "Sunrise at", e.sunrise_next) >>

\* The test of line 146 with the interval open at its start and closed at
\* its end
InBlock_open_start(b, t) == b.start < t /\ t <= b.end

\* The test of line 146
InBlock(b, t) == b.start <= t /\ t < b.end

\* The loop of lines 145-148 without its break: the last match wins
RECURSIVE ScanBlocks_no_break(_, _, _)
ScanBlocks_no_break(bs, t, i) ==
    IF i > Len(bs) THEN bs[Len(bs)]
    ELSE IF bs[i].start <= t /\ t < bs[i].end
              /\ \A k \in (i + 1)..Len(bs) : ~(bs[k].start <= t /\ t < bs[k].end)
         THEN bs[i]
    ELSE ScanBlocks_no_break(bs, t, i + 1)

\* The loop of lines 145-148 from entry i on; current = blocks[-1] when it
\* ends without a break.
RECURSIVE ScanBlocks(_, _, _)
ScanBlocks(bs, t, i) ==
    IF i > Len(bs) THEN bs[Len(bs)]
    ELSE IF InBlock(bs[i], t) THEN bs[i]
    ELSE ScanBlocks(bs, t, i + 1)

\* Lines 150 and 188-191: the payload fields taken from the current block
FieldsOf(current) ==
    [ current |-> current.name,
      ends_at |-> HHMM(current.end),
      line1   |-> current.line1,
      line2   |-> current.line2 ]

\* Lines 143-150: the current block of a window list
CurrentFields(bs, t) == FieldsOf(ScanBlocks(bs, t, 1))

\* Line 153 with maghrib included in the fast
Fasting_through_maghrib(e, t) == e.sihori_end <= t /\ t <= e.maghrib

\* Line 153
Fasting(e, t) == e.sihori_end <= t /\ t < e.maghrib

\* Lines 159-177 with the progress measured over the current window
ProgressSpan_of_window(e, t) ==
    [ from  |-> ScanBlocks(BuildBlocks(e), t, 1).start,
      to    |-> ScanBlocks(BuildBlocks(e), t, 1).end,
      label |-> IF Fasting(e, t) THEN "Roza done" ELSE "Night done" ]

\* Lines 159-177 with yesterday's maghrib taken as today's less 24 hours
ProgressSpan_maghrib_less_a_day(e, t) ==
    IF Fasting(e, t)
    THEN [ from |-> e.sihori_end, to |-> e.maghrib, label |-> "Roza done" ]
    ELSE IF t < e.maghrib
    THEN [ from  |-> e.maghrib - MinutesPerDay,
           to    |-> e.sihori_end,
           label |-> "Night done" ]
    ELSE [ from |-> e.maghrib, to |-> e.sihori_end_next, label |-> "Night done" ]

\* Lines 159-177: the interval the progress is measured over, as
\* (from, to), and its label
ProgressSpan(e, t) ==
    IF Fasting(e, t)
    THEN [ from |-> e.sihori_end, to |-> e.maghrib, label |-> "Roza done" ]
    ELSE IF t < e.maghrib
    THEN [ from  |-> compute_solar_times(e.today - 1).maghrib,
           to    |-> e.sihori_end,
           label |-> "Night done" ]
    ELSE [ from |-> e.maghrib, to |-> e.sihori_end_next, label |-> "Night done" ]

\* Line 179 with the time left in place of the time elapsed
ProgressPercent_remaining(from, to, t) ==
    IF total_seconds(to - from) > 0
    THEN clamp_pct(total_seconds(to - t) * 100, total_seconds(to - from))
    ELSE 0

\* Line 179
ProgressPercent(from, to, t) ==
    IF total_seconds(to - from) > 0
    THEN clamp_pct(total_seconds(t - from) * 100, total_seconds(to - from))
    ELSE 0

\* Lines 181-194: the payload
PayloadOf(e, t, cur, span, h) ==
    [ hijri            |-> << h[1], HIJRI_MONTHS[(h[2] - 1) + 1], h[3], "AH" >>,
      eat_state        |-> IF Fasting(e, t) THEN "No Eat" ELSE "Eat",
      current          |-> cur.current,
      ends_at          |-> cur.ends_at,
      line1            |-> cur.line1,
      line2            |-> cur.line2,
      progress_label   |-> span.label,
      progress_percent |-> ProgressPercent(span.from, span.to, t) ]

\* compute_day_schedule for the events e of the day of t
ScheduleOf(e, t) ==
    PayloadOf(e, t, CurrentFields(BuildBlocks(e), t), ProgressSpan(e, t),
              gregorian_to_hijri_ramadan_anchor(e.today))

\* compute_day_schedule(now): the payload
compute_day_schedule(t) == ScheduleOf(DayEvents(DateOf(t)), t)

-----------------------------------------------------------------------------
(* The runs of the program, one per trigger of the external scheduler *)

\* The days on which the clock starts: 2026-02-15 and the anchor date, the
\* days before both changes of the UTC offset (2026-03-28, 2026-10-24), the
\* summer solstice (2026-06-21) and the last day of the year (2026-12-31)
StartDays == { -2, 0, 39, 124, 249, 317 }

\* The number of days the clock runs from a start day
MaxDays == 2

\* The largest number of minutes between two runs
MaxStep == 2

Days == UNION { s .. (s + MaxDays - 1) : s \in StartDays }

NoEvents == [ today |-> 0 ]

NoPayload == [ current |-> "none" ]

NotRun ==
    /\ pending = TRUE
    /\ ran_at = now
    /\ events = NoEvents
    /\ blocks = << >>
    /\ payload = NoPayload

HourAngleIdle ==
    /\ ha_in = << 0, 0, 0 >>
    /\ ha_out = Raise("not called")

SelectIdle ==
    /\ sel_in = [ blocks |-> << >>, now |-> 0 ]
    /\ sel_out = [ current |-> "none" ]

Init ==
    /\ now \in { MidnightOf(s) : s \in StartDays }
    /\ NotRun
    /\ HourAngleIdle
    /\ SelectIdle

\* The scheduler waits d minutes and triggers the next run
Tick ==
    /\ ~pending
    /\ \E d \in 1..MaxStep :
          /\ DateOf(now + d) \in Days
          /\ now' = now + d
    /\ pending' = TRUE
    /\ UNCHANGED << ran_at, events, blocks, payload, ha_in, ha_out, sel_in, sel_out >>

\* Lines 201-203: push(compute_day_schedule(dt.datetime.now(TZ)))
Main ==
    /\ pending
    /\ pending' = FALSE
    /\ ran_at' = now
    /\ events' = DayEvents(DateOf(now))
    /\ blocks' = BuildBlocks(events')
    /\ payload' = ScheduleOf(events', now)
    /\ UNCHANGED << now, ha_in, ha_out, sel_in, sel_out >>

Next == Tick \/ Main

Spec == Init /\ [][Next]_vars

-----------------------------------------------------------------------------
(* hour_angle alone, on a grid of latitudes, declinations and altitudes *)

\* Latitudes in 1e-3 degree, poles and polar circles included
HaLatitudes ==
    { -90000, -80000, -66560, -50111, -23440, 0, 23440, 50111, 66560, 80000, 90000 }

\* Declinations in 1e-5 rad, between the solstices
HaDeclinations == { -40910, -20000, 0, 20000, 40910 }

\* Target altitudes in 1e-3 degree
HaAltitudes == { -18000, -833, 0, 30000, 60000, 90000 }

InitHourAngle ==
    /\ now = 0
    /\ NotRun
    /\ ha_in \in { << deg2rad(l), d, a >> :
                      l \in HaLatitudes, d \in HaDeclinations, a \in HaAltitudes }
    /\ ha_out = Raise("not called")
    /\ SelectIdle

HourAngleCall ==
    /\ ha_out.err = "not called"
    /\ ha_out' = hour_angle(ha_in[1], ha_in[2], ha_in[3])
    /\ UNCHANGED << now, pending, ran_at, events, blocks, payload, ha_in, sel_in, sel_out >>

SpecHourAngle == InitHourAngle /\ [][HourAngleCall]_vars

-----------------------------------------------------------------------------
(* The window scan alone, on arbitrary window lists *)

\* The number of windows of a list
SelBlocks == 3

\* The latest minute a window starts or ends at
SelMaxT == 2

BlockNames ==
    << "Pre-Sehori", "Fajr", "Midday", "Zohr", "Asr", "Late Asr", "Maghrib", "Isha",
       "Late Night" >>

SelTimes == 0..SelMaxT

SelLists ==
    { [ i \in 1..SelBlocks |->
          Block(BlockNames[i], se[i][1], se[i][2], "ends at", se[i][2], "starts at", se[i][1]) ] :
      se \in [ 1..SelBlocks -> SelTimes \X SelTimes ] }

InitSelect ==
    /\ now = 0
    /\ NotRun
    /\ HourAngleIdle
    /\ sel_in \in [ blocks : SelLists, now : 0..(SelMaxT + 1) ]
    /\ sel_out = [ current |-> "none" ]

SelectCall ==
    /\ sel_out.current = "none"
    /\ sel_out' = CurrentFields(sel_in.blocks, sel_in.now)
    /\ UNCHANGED << now, pending, ran_at, events, blocks, payload, ha_in, ha_out, sel_in >>

SpecSelect == InitSelect /\ [][SelectCall]_vars

-----------------------------------------------------------------------------
(* Properties *)

\* A run has happened and its results are those for the current "now"
Ran == ~pending

Today == DateOf(now)

\* The entries of a window list that contain t
Hits(bs, t) == { i \in 1..Len(bs) : bs[i].start <= t /\ t < bs[i].end }

\* The position of a window name in the list of the latest run
IndexOf(name) == CHOOSE i \in 1..Len(blocks) : blocks[i].name = name

\* The elapsed percentage of [from, to) at t, stated directly
PercentOf(from, to, t) ==
    IF to <= from \/ t <= from THEN 0
    ELSE IF t >= to THEN 100
    ELSE (100 * (t - from)) \div (to - from)

\* C1: the window list built by a run is contiguous and non-overlapping: it
\* is sorted by start time, each window ends where the next one starts, and
\* the first window starts at local midnight of the day of "now".
C1_WindowsContiguous ==
    Ran =>
        /\ blocks[1].start = MidnightOf(Today)
        /\ \A i \in 1..(Len(blocks) - 1) :
              /\ blocks[i].start <= blocks[i + 1].start
              /\ blocks[i].end = blocks[i + 1].start

\* C2: eat_state is "No Eat" exactly when sihori_end <= now < maghrib and
\* "Eat" otherwise, whichever window is current; one minute before maghrib
\* it is "No Eat", at maghrib and one minute after it "Eat".
C2_EatStateIsFastingBracket ==
    Ran =>
        /\ payload.eat_state \in { "Eat", "No Eat" }
        /\ payload.eat_state = "No Eat"
              <=> (events.sihori_end <= now /\ now < events.maghrib)
        /\ now = events.maghrib - 1 => payload.eat_state = "No Eat"
        /\ now \in { events.maghrib, events.maghrib + 1 } => payload.eat_state = "Eat"

C2_Witness ==
    /\ Ran
    /\ now = events.maghrib + 1
    /\ payload.current = "Maghrib"
    /\ payload.eat_state = "Eat"

\* C3 as claimed: progress_percent is the elapsed percentage of the window
\* reported as current, so it is 0 when "now" is the start of that window.
C3_ProgressOfCurrentWindow ==
    Ran =>
        LET b == blocks[IndexOf(payload.current)]
        IN  /\ payload.progress_percent = PercentOf(b.start, b.end, now)
            /\ now = b.start => payload.progress_percent = 0

\* C3 as amended: progress_percent is the elapsed percentage of the fasting
\* interval [sihori_end, maghrib) while fasting, of the night interval
\* [maghrib of the previous day, sihori_end) before it, and of the night
\* interval [maghrib, sihori_end of the next day) after it; it is 0 when
\* "now" is sihori_end or maghrib, the moments the eat state changes.
C3_ProgressOfFastOrNight ==
    Ran =>
        LET yesterday == compute_solar_times(Today - 1)
            tomorrow  == compute_solar_times(Today + 1)
            expected  ==
                IF now < events.sihori_end
                THEN PercentOf(yesterday.maghrib, events.sihori_end, now)
                ELSE IF now < events.maghrib
                THEN PercentOf(events.sihori_end, events.maghrib, now)
                ELSE PercentOf(events.maghrib,
                               tomorrow.sunrise - SIHORI_BEFORE_SUNRISE_MIN, now)
        IN  /\ payload.progress_percent = expected
            /\ payload.progress_label =
                  (IF payload.eat_state = "No Eat" THEN "Roza done" ELSE "Night done")
            /\ now \in { events.sihori_end, events.maghrib } => payload.progress_percent = 0

C3_Witness ==
    /\ Ran
    /\ now = events.maghrib
    /\ payload.current = "Maghrib"
    /\ payload.progress_label = "Night done"
    /\ payload.progress_percent = 0

\* The progress of the latest run is a percentage
C4_ProgressInRange ==
    Ran => payload.progress_percent \in 0..100

\* A run in the same window and on the same day as the run before it
\* reports no smaller a progress
C4_ProgressMonotoneInWindow ==
    ( /\ Main
      /\ payload.current # "none"
      /\ payload'.current = payload.current
      /\ DateOf(ran_at) = DateOf(ran_at') )
    => payload.progress_percent <= payload'.progress_percent

\* C4: progress_percent is an integer in [0, 100], and from one run to the
\* next in the same window of the same day it does not decrease.
C4_ProgressBoundedMonotone ==
    /\ []C4_ProgressInRange
    /\ [][C4_ProgressMonotoneInWindow]_vars

C4_Witness ==
    /\ Ran
    /\ payload.current = "Isha"
    /\ now > events.maghrib_end + 60
    /\ payload.progress_percent \in 1..99

\* C6: with dayIndex = 1 + (date - anchor).days the Hijri label is
\* (dayIndex, Ramadan, 1447) when dayIndex >= 1 and (30 + dayIndex, Sha'ban,
\* 1447) when dayIndex <= 0: 1 Ramadan 1447 on the anchor date, 30 Sha'ban
\* 1447 the day before, and the year 1447 on every date.
C6_HijriLabel ==
    Ran =>
        LET dayIndex == 1 + (Today - RAMADAN_1_GREGORIAN)
            h        == gregorian_to_hijri_ramadan_anchor(Today)
        IN  /\ dayIndex >= 1 =>
                  /\ h = << dayIndex, 9, 1447 >>
                  /\ payload.hijri = << dayIndex, "Ramadan", 1447, "AH" >>
            /\ dayIndex <= 0 =>
                  /\ h = << 30 + dayIndex, 8, 1447 >>
                  /\ payload.hijri = << 30 + dayIndex, "Sha'ban", 1447, "AH" >>
            /\ Today = RAMADAN_1_GREGORIAN =>
                  payload.hijri = << 1, "Ramadan", 1447, "AH" >>
            /\ Today = RAMADAN_1_GREGORIAN - 1 =>
                  payload.hijri = << 30, "Sha'ban", 1447, "AH" >>

C6_Witness ==
    /\ Ran
    /\ Today = RAMADAN_1_GREGORIAN - 1
    /\ payload.hijri = << 30, "Sha'ban", 1447, "AH" >>

\* C5: the window scan reports the first window in list order with
\* start <= now < end, and when no window of the list contains "now" it
\* reports the last window of the list, with that window's end as ends_at.
C5_FirstMatchOrLast ==
    sel_out.current # "none" =>
        LET bs   == sel_in.blocks
            hits == Hits(bs, sel_in.now)
            last == bs[Len(bs)]
        IN  IF hits = {}
            THEN /\ sel_out.current = last.name
                 /\ sel_out.ends_at = << 0, last.end >>
            ELSE \E i \in hits :
                    /\ \A k \in hits : i <= k
                    /\ sel_out.current = bs[i].name
                    /\ sel_out.ends_at = << 0, bs[i].end >>

C5_Witness ==
    /\ sel_out.current = BlockNames[SelBlocks]
    /\ Hits(sel_in.blocks, sel_in.now) = {}
    /\ \E i \in 1..SelBlocks : sel_in.blocks[i].start < sel_in.blocks[i].end
    /\ sel_out.ends_at = << 0, sel_in.blocks[SelBlocks].end >>

\* C7: wherever the cosine ratio is defined, hour_angle raises nothing and
\* returns a value in [0, 180] degrees: exactly 0 when the ratio is above 1
\* and exactly 180 when it is below -1.
C7_HourAngleSaturates ==
    LET raw == CosRatio(ha_in[1], ha_in[2], ha_in[3])
    IN  (ha_out.err # "not called" /\ raw.err = "none") =>
            /\ ha_out.err = "none"
            /\ 0 <= ha_out.val /\ ha_out.val <= 180000
            /\ raw.val > 10000 => ha_out.val = 0
            /\ raw.val < -10000 => ha_out.val = 180000

C7_Witness ==
    /\ ha_out.err = "none"
    /\ CosRatio(ha_in[1], ha_in[2], ha_in[3]).val < -10000
    /\ ha_out.val = 180000

\* C8: the sunrise, zawal and maghrib of the day of "now" are local midnight
\* of that day plus an offset in [0, 1440) minutes, and the next-day sunrise
\* that closes the night windows is on the following calendar date.
C8_EventsOnTheirDate ==
    Ran =>
        /\ \A t \in { events.sunrise, events.zawal, events.maghrib } :
              /\ MidnightOf(Today) <= t
              /\ t < MidnightOf(Today) + 1440
        /\ MidnightOf(Today + 1) <= events.sunrise_next
        /\ events.sunrise_next < MidnightOf(Today + 1) + 1440
        /\ DateOf(events.sunrise_next) = Today + 1

C8_Witness ==
    /\ Ran
    /\ now > events.maghrib
    /\ DateOf(events.sunrise_next) = Today + 1
    /\ payload.current = "Isha"

\* The order of the day's events that C9 assumes
EventsOrdered ==
    /\ MidnightOf(Today) <= events.sihori_end
    /\ events.sihori_end <= events.sunrise
    /\ events.sunrise <= events.zawal
    /\ events.zawal <= events.zuhr_end
    /\ events.zuhr_end <= events.asr_end
    /\ events.asr_end <= events.maghrib
    /\ events.maghrib <= events.maghrib_end
    /\ events.maghrib_end <= MidnightOf(Today + 1)
    /\ MidnightOf(Today + 1) < events.nisf_start

\* The current window of the latest run is a window that contains "now"
C9_CurrentContainsNow ==
    Ran =>
        /\ EventsOrdered
        /\ Hits(blocks, now) # {}
        /\ payload.current # "Late Night"
        /\ blocks[IndexOf(payload.current)].start <= now
        /\ now < blocks[IndexOf(payload.current)].end
        /\ payload.ends_at = HHMM(blocks[IndexOf(payload.current)].end)

\* The current window of a run against that of the run before it
C9_CurrentMovesForward ==
    (Main /\ payload.current # "none") =>
        IF DateOf(ran_at') = DateOf(ran_at)
        THEN \E i, k \in 1..8 :
                /\ BlockNames[i] = payload.current
                /\ BlockNames[k] = payload'.current
                /\ i <= k
        ELSE payload'.current = "Pre-Sehori"

\* C9: at the fixed location the day's events are in order, the window
\* reported as current contains "now", no run falls back to the last window
\* and "Late Night" is never reported; from one run to the next the current
\* window stays or moves forward in the list, and the first run of a new day
\* reports "Pre-Sehori".
C9_WindowsAdvance ==
    /\ []C9_CurrentContainsNow
    /\ [][C9_CurrentMovesForward]_vars

\* A day that is no start day is reached only through the runs of the day
\* before it: this is the first run after such a midnight.
C9_Witness ==
    /\ Ran
    /\ Today \notin StartDays
    /\ now = MidnightOf(Today)
    /\ EventsOrdered
    /\ payload.current = "Pre-Sehori"

\* The night interval that contains "now", when "now" is outside the fast:
\* from maghrib of day D to sihori_end of day D + 1
NightOfNow ==
    LET d == IF now < events.sihori_end THEN Today - 1 ELSE Today
    IN  [ from |-> compute_solar_times(d).maghrib,
          to   |-> compute_solar_times(d + 1).sunrise - SIHORI_BEFORE_SUNRISE_MIN ]

\* The progress of a run outside the fast is "Night done" over the night
\* interval of "now"; in the morning it is no smaller than the progress of a
\* run in the last minute of the day before
C10_SameNightInterval ==
    (Ran /\ ~(events.sihori_end <= now /\ now < events.maghrib)) =>
        /\ payload.progress_label = "Night done"
        /\ payload.progress_percent = PercentOf(NightOfNow.from, NightOfNow.to, now)
        /\ now < events.sihori_end =>
              compute_day_schedule(MidnightOf(Today) - 1).progress_percent
                  <= payload.progress_percent

\* Two runs in a row that both report "Night done" (they are at most MaxStep
\* minutes apart, so in the same night): the progress does not decrease
C10_NightProgressForward ==
    ( /\ Main
      /\ payload.current # "none"
      /\ payload.progress_label = "Night done"
      /\ payload'.progress_label = "Night done" )
    => payload.progress_percent <= payload'.progress_percent

\* C10: a run in the evening of day D (maghrib <= now) and a run in the
\* morning of day D + 1 (now < sihori_end) both report "Night done" measured
\* over [maghrib(D), sihori_end(D + 1)), and the progress does not go back:
\* not from one run of that night to the next, and not from the last minute
\* of day D to any run of the morning of day D + 1.
C10_NightDoneAcrossMidnight ==
    /\ []C10_SameNightInterval
    /\ [][C10_NightProgressForward]_vars

\* The first run after a midnight reached through the evening before it
C10_Witness ==
    /\ Ran
    /\ Today \notin StartDays
    /\ now = MidnightOf(Today)
    /\ payload.progress_label = "Night done"
    /\ payload.progress_percent \in 1..99

=============================================================================
